---- MODULE Spec2Model ----
(***************************************************************************)
(* Dynamic-symbol resolution and dual-ABI access to Android system         *)
(* properties.  Two accessors are modelled:                                *)
(*   variant = "android" : Properties         (src/src/android.rs)         *)
(*   variant = "lib"     : AndroidProperties  (src/src/lib.rs)             *)
(* The native layer (libc.so: dlopen/dlsym/dlclose and the                 *)
(* __system_property_* functions) is the environment.  Text is modelled as *)
(* sequences of bytes (0..255); a C string is a byte sequence ending in a  *)
(* 0 byte.                                                                 *)
(***************************************************************************)
EXTENDS Integers, Sequences, FiniteSets, TLC

VARIABLES
    variant,          \* which accessor this process uses
    libcLoaded,       \* environment: dlopen("libc.so", RTLD_NOLOAD) yields a handle
    exports,          \* environment: the property symbols libc.so exports
    store,            \* environment: the property store, in enumeration order
    phase,            \* "start" | "live" | "failed" | "dropped" | "aborted"
    libc_so,          \* the accessor's library handle: "null" | "handle"
    implementation,   \* android.rs: "None" | "New" | "Old"
    get_fn,           \* lib.rs: Option<SystemPropertyGetFn> is Some
    set_fn,           \* lib.rs: Option<SystemPropertySetFn> is Some
    find_fn,          \* lib.rs: Option<SystemPropertyFindFn> is Some
    read_callback_fn, \* lib.rs: Option<SystemPropertyReadCallbackFn> is Some
    for_each_fn,      \* lib.rs: Option<SystemPropertyForEachFn> is Some
    dlcloseCount,     \* environment: number of dlclose calls made so far
    last,             \* the last operation: its input, its result, its native calls
    pending           \* the latest successful set not overwritten since, or NoSet

vars == <<variant, libcLoaded, exports, store, phase, libc_so, implementation,
          get_fn, set_fn, find_fn, read_callback_fn, for_each_fn,
          dlcloseCount, last, pending>>

(***************************************************************************)
(* Bounds and input sets.                                                  *)
(***************************************************************************)
\* Most properties the store holds at once.
MaxProps == 2

\* PROP_VALUE_MAX of the old ABI.
PROPERTY_VALUE_MAX == 92

\* Rust &str names handed to get/set: three plain names, and one with an
\* embedded 0 byte whose prefix is the first plain name.
Names == {<<97>>, <<98>>, <<97, 98>>, <<97, 0, 98>>}

\* Rust &str values handed to set.
Values == {<<>>, <<97>>, <<97, 0>>}

RECURSIVE Repeat(_, _)
Repeat(b, n) == IF n = 0 THEN <<>> ELSE <<b>> \o Repeat(b, n - 1)

\* A value one byte longer than the old ABI's buffer.
LongValue == Repeat(97, PROPERTY_VALUE_MAX + 1)

\* Values other processes put in the store: not UTF-8, and over-long.
NativeValues == {<<255>>, LongValue}

\* What the old-ABI function returns for a property that does not exist.
NotFoundRets == {0, -1}

\* Status codes of the native set function.
NativeStatuses == {-1, 0}

\* A byte read from memory the native function never wrote.
GarbageBytes == {0, 255}

AllSymbols == {"find", "read_callback", "get", "set", "foreach"}

(***************************************************************************)
(* std conversions used by the accessors.                                  *)
(***************************************************************************)
HasNul(s) == \E i \in 1..Len(s) : s[i] = 0

\* CString::new: an error on an interior 0 byte, else the bytes and a final 0.
CString_new(s) ==
    IF HasNul(s) THEN [ok |-> FALSE, bytes |-> <<>>]
    ELSE [ok |-> TRUE, bytes |-> Append(s, 0)]

\* The index of the first 0 byte of mem at or after i.
RECURSIVE FirstNul(_, _)
FirstNul(mem, i) == IF mem[i] = 0 THEN i ELSE FirstNul(mem, i + 1)

\* CStr::from_ptr: the bytes before the first 0 byte.
CStr_from_ptr(mem) == SubSeq(mem, 1, FirstNul(mem, 1) - 1)

\* UTF-8 validation of the bytes of b from the i-th on.
RECURSIVE Utf8ValidFrom(_, _)
Utf8ValidFrom(b, i) ==
    IF i > Len(b) THEN TRUE
    ELSE LET h == b[i]
             Cont(k) == k <= Len(b) /\ b[k] >= 128 /\ b[k] <= 191
         IN IF h <= 127 THEN Utf8ValidFrom(b, i + 1)
            ELSE IF h >= 194 /\ h <= 223
                 THEN Cont(i + 1) /\ Utf8ValidFrom(b, i + 2)
            ELSE IF h >= 224 /\ h <= 239
                 THEN /\ Cont(i + 1) /\ Cont(i + 2)
                      /\ (h = 224 => b[i + 1] >= 160)
                      /\ (h = 237 => b[i + 1] <= 159)
                      /\ Utf8ValidFrom(b, i + 3)
            ELSE IF h >= 240 /\ h <= 244
                 THEN /\ Cont(i + 1) /\ Cont(i + 2) /\ Cont(i + 3)
                      /\ (h = 240 => b[i + 1] >= 144)
                      /\ (h = 244 => b[i + 1] <= 143)
                      /\ Utf8ValidFrom(b, i + 4)
            ELSE FALSE

\* CStr::to_str / String::from_utf8: whether the bytes are UTF-8.
Utf8Valid(b) == Utf8ValidFrom(b, 1)

(***************************************************************************)
(* The native layer.                                                       *)
(***************************************************************************)
Take(s, n) == SubSeq(s, 1, IF n < Len(s) THEN n ELSE Len(s))

\* __system_property_find: the property's reference (its index), 0 for null.
system_property_find(cname) ==
    LET n == CStr_from_ptr(cname)
    IN IF \E i \in 1..Len(store) : store[i].name = n
       THEN CHOOSE i \in 1..Len(store) : store[i].name = n
       ELSE 0

\* __system_property_read_callback: the C strings handed to the callback.
system_property_read_callback(info) ==
    [name |-> Append(store[info].name, 0), value |-> Append(store[info].value, 0)]

\* __system_property_get: the reported length and the bytes written to the
\* buffer (never more than PROP_VALUE_MAX of them); notFound is what it
\* returns for a property that does not exist.
system_property_get(cname, notFound) ==
    LET info == system_property_find(cname)
    IN IF info = 0 THEN [ret |-> notFound, written |-> <<0>>]
       ELSE [ret |-> Len(store[info].value),
             written |-> Take(Append(store[info].value, 0), PROPERTY_VALUE_MAX)]

\* The order in which the native layer keeps (and enumerates) names.
RECURSIVE NameBefore(_, _)
NameBefore(a, b) ==
    IF b = <<>> THEN FALSE
    ELSE IF a = <<>> THEN TRUE
    ELSE IF Head(a) # Head(b) THEN Head(a) < Head(b)
    ELSE NameBefore(Tail(a), Tail(b))

\* The store after a write of name := value.
StoreWrite(name, value) ==
    LET info == system_property_find(Append(name, 0))
        k == Cardinality({i \in 1..Len(store) : NameBefore(store[i].name, name)})
    IN IF info = 0
       THEN SubSeq(store, 1, k) \o <<[name |-> name, value |-> value]>>
            \o SubSeq(store, k + 1, Len(store))
       ELSE [store EXCEPT ![info].value = value]

\* Whether the store has room for a write to name.
StoreHasRoom(name) ==
    system_property_find(Append(name, 0)) # 0 \/ Len(store) < MaxProps

(***************************************************************************)
(* Results.                                                                *)
(***************************************************************************)
Outcome(tag, val, calls) == [tag |-> tag, val |-> val, calls |-> calls, abort |-> FALSE]

Abort(calls) == [tag |-> "abort", val |-> <<>>, calls |-> calls, abort |-> TRUE]

NoOp(op) ==
    [op |-> op, name |-> <<>>, tag |-> "", val |-> <<>>, items |-> <<>>,
     calls |-> <<>>, status |-> 0]

NoSet == [set |-> FALSE, name |-> <<>>, value |-> <<>>]

(***************************************************************************)
(* android.rs                                                              *)
(***************************************************************************)
\* property_callback: the payload, or a panic on to_str().unwrap().
android_property_callback(value) ==
    LET cvalue == CStr_from_ptr(value)
    IN IF Utf8Valid(cvalue) THEN [panic |-> FALSE, payload |-> cvalue]
       ELSE [panic |-> TRUE, payload |-> <<>>]

\* LibC::new: Some exactly when dlopen returns a non-null handle.
LibC_new == IF libcLoaded THEN "handle" ELSE "null"

\* load_fn: dlsym finds the symbol.
load_fn(handle, symbol) == handle # "null" /\ symbol \in exports

\* A load_new that asks for the lookup symbol alone.
Implementation_load_new_find_only(handle) == load_fn(handle, "find")

Implementation_load_new(handle) ==
    load_fn(handle, "read_callback") /\ load_fn(handle, "find")

Implementation_load_old(handle) == load_fn(handle, "get")

Implementation_new(handle) ==
    IF Implementation_load_new(handle) THEN "New"
    ELSE IF Implementation_load_old(handle) THEN "Old"
    ELSE "None"

\* Implementation::get: the set of possible outcomes.
Implementation_get(cname, notFound) ==
    IF implementation = "New"
    THEN LET info == system_property_find(cname)
         IN IF info = 0 THEN {Outcome("None", <<>>, <<"find">>)}
            ELSE LET cb == android_property_callback(
                               system_property_read_callback(info).value)
                 IN IF cb.panic
                    THEN {Outcome("panic", <<>>, <<"find", "read_callback">>)}
                    ELSE {Outcome("Some", cb.payload, <<"find", "read_callback">>)}
    ELSE LET r == system_property_get(cname, notFound)
             capacity == PROPERTY_VALUE_MAX
         IN IF r.ret > 0
            THEN IF ~(r.ret <= capacity)
                 THEN {Outcome("panic", <<>>, <<"get">>)}
                 ELSE LET buffer == SubSeq(r.written, 1, r.ret)
                      IN IF Utf8Valid(buffer)
                         THEN {Outcome("Some", buffer, <<"get">>)}
                         ELSE {Outcome("None", <<>>, <<"get">>)}
            ELSE {Outcome("None", <<>>, <<"get">>)}

\* Properties::get
Properties_get(name, notFound) ==
    LET cname == CString_new(name)
    IN IF ~cname.ok THEN {Outcome("None", <<>>, <<>>)}
       ELSE Implementation_get(cname.bytes, notFound)

\* Properties::new
Properties_new ==
    LET h == LibC_new
        impl == Implementation_new(h)
    IN /\ implementation' = impl
       /\ IF h = "null"
          THEN /\ phase' = "failed"
               /\ libc_so' = "null"
               /\ dlcloseCount' = dlcloseCount
          ELSE IF impl = "None"
          THEN \* the `?` returns early and the LibC value is dropped
               /\ phase' = "failed"
               /\ libc_so' = "null"
               /\ dlcloseCount' = dlcloseCount + 1
          ELSE /\ phase' = "live"
               /\ libc_so' = h
               /\ dlcloseCount' = dlcloseCount
       /\ UNCHANGED <<get_fn, set_fn, find_fn, read_callback_fn, for_each_fn>>

(***************************************************************************)
(* lib.rs                                                                  *)
(***************************************************************************)
\* property_callback: name and value, or a panic on either to_str().unwrap().
lib_property_callback(name, value) ==
    LET cname == CStr_from_ptr(name)
        cvalue == CStr_from_ptr(value)
    IN IF Utf8Valid(cname) /\ Utf8Valid(cvalue)
       THEN [panic |-> FALSE, name |-> cname, value |-> cvalue]
       ELSE [panic |-> TRUE, name |-> <<>>, value |-> <<>>]

\* The new-ABI test of AndroidProperties::get.
lib_uses_new == find_fn /\ read_callback_fn

\* The fallback test of AndroidProperties::new.
lib_needs_fallback(read_cb, find) == ~read_cb \/ ~find

\* The old-ABI buffer: CString::new of an empty Vec is a boxed slice holding
\* only the final 0 byte, whatever capacity the Vec had.
lib_buffer_alloc == Len(CString_new(<<>>).bytes)

\* The len bytes String::from_raw_parts reads at the buffer: what the native
\* function wrote, then bytes it never wrote.
lib_raw_parts(written, len) ==
    IF len <= Len(written) THEN {SubSeq(written, 1, len)}
    ELSE {written \o Repeat(g, len - Len(written)) : g \in GarbageBytes}

\* The old-ABI arm of AndroidProperties::get.  Writing past the allocation,
\* and a String longer than its capacity, are undefined behaviour: the bytes
\* come back as text, or the process dies.
lib_get_old(cname, notFound) ==
    LET r == system_property_get(cname, notFound)
        overflow == Len(r.written) > lib_buffer_alloc
    IN IF r.ret > 0
       THEN {Outcome("Some", v, <<"get">>) : v \in lib_raw_parts(r.written, r.ret)}
            \cup (IF overflow \/ r.ret > PROPERTY_VALUE_MAX
                  THEN {Abort(<<"get">>)} ELSE {})
       ELSE {Outcome("None", <<>>, <<"get">>)}

\* AndroidProperties::get
AndroidProperties_get(name, notFound) ==
    LET cname == CString_new(name)
    IN IF ~cname.ok THEN {Outcome("panic", <<>>, <<>>)}
       ELSE IF lib_uses_new
       THEN LET info == system_property_find(cname.bytes)
            IN IF info = 0 THEN {Outcome("None", <<>>, <<"find">>)}
               ELSE LET p == system_property_read_callback(info)
                        cb == lib_property_callback(p.name, p.value)
                    IN IF cb.panic
                       THEN {Outcome("panic", <<>>, <<"find", "read_callback">>)}
                       ELSE {Outcome("Some", cb.value, <<"find", "read_callback">>)}
       ELSE IF get_fn THEN lib_get_old(cname.bytes, notFound)
       ELSE {Outcome("None", <<>>, <<>>)}

\* __system_property_set as called by AndroidProperties::set: the store after
\* a call that reports status (a write exactly when the status is not negative).
system_property_set(cname, cvalue, status) ==
    IF status >= 0 THEN StoreWrite(CStr_from_ptr(cname), CStr_from_ptr(cvalue))
    ELSE store

\* AndroidProperties::set, the native function reporting status.
AndroidProperties_set(name, value, status) ==
    LET cname == CString_new(name)
        cvalue == CString_new(value)
    IN IF ~cname.ok \/ ~cvalue.ok
       THEN [tag |-> "panic", calls |-> <<>>, store |-> store]
       ELSE IF set_fn
       THEN [tag |-> IF status >= 0 THEN "Ok" ELSE "Err",
             calls |-> <<"set">>,
             store |-> system_property_set(cname.bytes, cvalue.bytes, status)]
       ELSE [tag |-> "Err", calls |-> <<>>, store |-> store]

\* __system_property_foreach calling foreach_property_callback on the
\* properties from the i-th on, in store order; props is the accumulator.
RECURSIVE lib_foreach(_, _, _)
lib_foreach(i, props, calls) ==
    IF i > Len(store) THEN [tag |-> "Items", items |-> props, calls |-> calls]
    ELSE LET p == system_property_read_callback(i)
             cb == lib_property_callback(p.name, p.value)
         IN IF cb.panic
            THEN [tag |-> "panic", items |-> <<>>,
                  calls |-> Append(calls, "read_callback")]
            ELSE lib_foreach(i + 1,
                             Append(props, [name |-> cb.name, value |-> cb.value]),
                             Append(calls, "read_callback"))

\* The symbol test of AndroidProperties::iter.
lib_iter_available == for_each_fn /\ read_callback_fn

\* AndroidProperties::iter
AndroidProperties_iter ==
    IF lib_iter_available THEN lib_foreach(1, <<>>, <<"foreach">>)
    ELSE [tag |-> "Items", items |-> <<>>, calls |-> <<>>]

\* AndroidProperties::new (target_os = "android")
AndroidProperties_new ==
    LET h == IF libcLoaded THEN "handle" ELSE "null"
        read_cb == load_fn(h, "read_callback")
        find == load_fn(h, "find")
    IN /\ libc_so' = h
       /\ phase' = "live"
       /\ read_callback_fn' = read_cb
       /\ find_fn' = find
       /\ set_fn' = load_fn(h, "set")
       /\ for_each_fn' = load_fn(h, "foreach")
       /\ get_fn' = (lib_needs_fallback(read_cb, find) /\ load_fn(h, "get"))
       /\ UNCHANGED <<implementation, dlcloseCount>>

\* A Drop that does not test the handle for null.
AndroidProperties_drop_unguarded(handle) == TRUE

\* Drop for AndroidProperties: whether dlclose is called.
AndroidProperties_drop_closes(handle) == handle # "null"

\* Drop for LibC: dlclose is always called.
LibC_drop_closes(handle) == TRUE

(***************************************************************************)
(* Actions.                                                                *)
(***************************************************************************)
Init ==
    /\ variant \in {"android", "lib"}
    /\ libcLoaded \in BOOLEAN
    /\ exports \in SUBSET AllSymbols
    /\ (~libcLoaded => exports = {})
    /\ (variant = "android" => exports \subseteq {"find", "read_callback", "get"})
    /\ store = <<>>
    /\ phase = "start"
    /\ libc_so = "null"
    /\ implementation = "None"
    /\ get_fn = FALSE
    /\ set_fn = FALSE
    /\ find_fn = FALSE
    /\ read_callback_fn = FALSE
    /\ for_each_fn = FALSE
    /\ dlcloseCount = 0
    /\ last = NoOp("none")
    /\ pending = NoSet

\* Construction of the accessor.
New ==
    /\ phase = "start"
    /\ IF variant = "android" THEN Properties_new ELSE AndroidProperties_new
    /\ last' = NoOp("new")
    /\ UNCHANGED <<variant, libcLoaded, exports, store, pending>>

\* get(name)
Get(name) ==
    /\ phase = "live"
    /\ \E o \in UNION {IF variant = "android" THEN Properties_get(name, notFound)
                       ELSE AndroidProperties_get(name, notFound) :
                       notFound \in NotFoundRets} :
            /\ last' = [NoOp("get") EXCEPT !.name = name, !.tag = o.tag,
                                             !.val = o.val, !.calls = o.calls]
            /\ phase' = IF o.abort THEN "aborted" ELSE phase
    /\ UNCHANGED <<variant, libcLoaded, exports, store, libc_so, implementation,
                   get_fn, set_fn, find_fn, read_callback_fn, for_each_fn,
                   dlcloseCount, pending>>

\* Teardown of the accessor.
Drop ==
    /\ phase = "live"
    /\ phase' = "dropped"
    /\ dlcloseCount' =
         IF (IF variant = "android" THEN LibC_drop_closes(libc_so)
             ELSE AndroidProperties_drop_closes(libc_so))
         THEN dlcloseCount + 1 ELSE dlcloseCount
    /\ last' = NoOp("drop")
    /\ UNCHANGED <<variant, libcLoaded, exports, store, libc_so, implementation,
                   get_fn, set_fn, find_fn, read_callback_fn, for_each_fn, pending>>

\* set(name, value)
Set(name, value) ==
    /\ phase = "live"
    /\ variant = "lib"
    /\ \E status \in NativeStatuses :
         LET o == AndroidProperties_set(name, value, status)
         IN /\ (o.calls = <<>> => status = 0)
            /\ (status >= 0 /\ ~HasNul(name) => StoreHasRoom(name))
            /\ store' = o.store
            /\ last' = [NoOp("set") EXCEPT !.name = name, !.tag = o.tag,
                                             !.calls = o.calls, !.status = status]
            /\ pending' = IF o.tag = "Ok"
                          THEN [set |-> TRUE, name |-> name, value |-> value]
                          ELSE pending
    /\ UNCHANGED <<variant, libcLoaded, exports, phase, libc_so, implementation,
                   get_fn, set_fn, find_fn, read_callback_fn, for_each_fn,
                   dlcloseCount>>

\* iter()
Iter ==
    /\ phase = "live"
    /\ variant = "lib"
    /\ LET o == AndroidProperties_iter
       IN last' = [NoOp("iter") EXCEPT !.tag = o.tag, !.items = o.items,
                                        !.calls = o.calls]
    /\ UNCHANGED <<variant, libcLoaded, exports, store, phase, libc_so,
                   implementation, get_fn, set_fn, find_fn, read_callback_fn,
                   for_each_fn, dlcloseCount, pending>>

\* Another process writes a property.
EnvWrite(name, value) ==
    /\ phase = "live"
    /\ StoreHasRoom(name)
    /\ store' = StoreWrite(name, value)
    /\ pending' = IF pending.set /\ pending.name = name THEN NoSet ELSE pending
    /\ last' = NoOp("env")
    /\ UNCHANGED <<variant, libcLoaded, exports, phase, libc_so, implementation,
                   get_fn, set_fn, find_fn, read_callback_fn, for_each_fn,
                   dlcloseCount>>

Next ==
    \/ New
    \/ \E name \in Names : Get(name)
    \/ \E name \in Names : \E value \in Values : Set(name, value)
    \/ Iter
    \/ Drop
    \/ \E name \in {n \in Names : ~HasNul(n)} :
          \E value \in NativeValues \cup {v \in Values : ~HasNul(v)} :
             EnvWrite(name, value)

Spec == Init /\ [][Next]_vars

(***************************************************************************)
(* Properties.                                                             *)
(***************************************************************************)
\* The ABI the symbols libc.so exports call for: new if both of its symbols
\* resolve, else old if its symbol resolves, else none.
ExpectedAbi ==
    IF libcLoaded /\ {"find", "read_callback"} \subseteq exports THEN "New"
    ELSE IF libcLoaded /\ "get" \in exports THEN "Old"
    ELSE "None"

\* The native property functions an ABI consists of, and the one get calls first.
AbiFns(abi) ==
    IF abi = "New" THEN {"find", "read_callback"}
    ELSE IF abi = "Old" THEN {"get"}
    ELSE {}

AbiEntry(abi) == IF abi = "New" THEN "find" ELSE "get"

\* The value the store holds for a name (no 0 byte in it) that is present.
Present(name) == \E i \in 1..Len(store) : store[i].name = name

StoredValue(name) ==
    store[CHOOSE i \in 1..Len(store) : store[i].name = name].value

\* Only the old-ABI symbol resolves.
OnlyOldResolves ==
    libcLoaded /\ "get" \in exports /\ exports \cap {"find", "read_callback"} = {}

\* C1: construction selects the ABI by a fixed precedence for every
\* combination of resolving symbols (new if both new symbols resolve, else old
\* if the get symbol resolves, else none), and every get calls only the
\* functions of the ABI so selected, starting with its entry function whenever
\* the name reaches the native layer.
C1_AbiPrecedence ==
    /\ (variant = "android" /\ phase \in {"live", "dropped"}
          => implementation = ExpectedAbi /\ ExpectedAbi # "None")
    /\ (variant = "android" /\ phase = "failed" => ExpectedAbi = "None")
    /\ (last.op = "get"
          => /\ \A i \in 1..Len(last.calls) : last.calls[i] \in AbiFns(ExpectedAbi)
             /\ (~HasNul(last.name) /\ ExpectedAbi # "None"
                   => last.calls # <<>> /\ last.calls[1] = AbiEntry(ExpectedAbi)))

\* C1 witness: only one new-ABI symbol and the get symbol resolve, and a get
\* went to the old ABI.
C1_Witness ==
    /\ last.op = "get"
    /\ libcLoaded
    /\ "get" \in exports
    /\ Cardinality(exports \cap {"find", "read_callback"}) = 1
    /\ last.calls = <<"get">>

\* C2: get on a name with an embedded 0 byte returns nothing and makes no
\* native call, in every accessor state and in both variants.
C2_NulNameReturnsNothing ==
    last.op = "get" /\ HasNul(last.name)
        => last.tag = "None" /\ last.calls = <<>>

\* C3: with only the old-ABI symbol resolved, get returns nothing (no text, no
\* abort) when the native function reports a length over the buffer capacity,
\* and returns the text for a valid value of length 1 up to the capacity.
C3_OldAbiBoundCheck ==
    last.op = "get" /\ OnlyOldResolves /\ Present(last.name)
        => LET v == StoredValue(last.name)
           IN /\ (Len(v) > PROPERTY_VALUE_MAX => last.tag = "None")
              /\ (Len(v) >= 1 /\ Len(v) <= PROPERTY_VALUE_MAX /\ Utf8Valid(v)
                    => last.tag = "Some" /\ last.val = v)

\* C4: when the native layer delivers a value that is not valid UTF-8, get
\* returns nothing under either ABI: no panic, no string of the invalid bytes.
C4_InvalidTextReturnsNothing ==
    last.op = "get" /\ Present(last.name) /\ ~Utf8Valid(StoredValue(last.name))
        => last.tag = "None"

\* C5: when the library cannot be opened or neither ABI resolves, every get,
\* for every name, returns nothing, without a panic and without a native call.
C5_UnresolvedGetReturnsNothing ==
    last.op = "get" /\ ExpectedAbi = "None"
        => last.tag = "None" /\ last.calls = <<>>

\* C6: dlclose is called exactly once if and only if dlopen returned a
\* non-null handle: once the accessor is torn down or its construction has
\* failed, never while the accessor is in use, never after a failed open, and
\* never twice.
C6_HandleReleasedOnce ==
    /\ dlcloseCount <= 1
    /\ (dlcloseCount = 1 => libcLoaded)
    /\ (phase \in {"dropped", "failed"}
          => dlcloseCount = IF libcLoaded THEN 1 ELSE 0)
    /\ (phase \in {"start", "live"} => dlcloseCount = 0)

\* C6 witness: an accessor that held a handle was torn down and the handle
\* released.
C6_Witness ==
    phase = "dropped" /\ libc_so = "handle" /\ dlcloseCount = 1

\* C7: after a successful set(k, v) with no later write of k, get(k) returns
\* exactly v, whichever read ABI (new or old) the accessor selected.
C7_SetGetRoundTrip ==
    last.op = "get" /\ pending.set /\ pending.name = last.name
                    /\ ExpectedAbi \in {"New", "Old"}
        => last.tag = "Some" /\ last.val = pending.value

\* C8: for every name not present in the store get returns nothing under
\* either ABI, and the read-callback function is not called.
C8_AbsentReturnsNothing ==
    last.op = "get" /\ ~Present(last.name)
        => /\ last.tag = "None"
           /\ \A i \in 1..Len(last.calls) : last.calls[i] # "read_callback"

\* C9: set returns a failure, without a native call, when the set symbol is
\* unresolved; a failure when the native call reports a negative status; and
\* success exactly when the symbol is resolved and the status is not negative.
C9_SetResult ==
    last.op = "set"
        => /\ (~set_fn => last.tag = "Err" /\ last.calls = <<>>)
           /\ (set_fn /\ last.calls = <<"set">> /\ last.status < 0
                 => last.tag = "Err")
           /\ (last.tag = "Ok"
                 <=> set_fn /\ last.calls = <<"set">> /\ last.status >= 0)

\* C10: with the for-each and read-callback symbols both resolved, iterate
\* calls the native enumeration once and returns the properties it reports,
\* as many and in the same order; with either unresolved it returns an empty
\* sequence and makes no native call.
C10_IterateReportsAll ==
    last.op = "iter"
        => IF "foreach" \in exports /\ "read_callback" \in exports
           THEN /\ Cardinality({i \in 1..Len(last.calls) :
                                   last.calls[i] = "foreach"}) = 1
                /\ last.tag = "Items"
                /\ last.items = store
           ELSE last.tag = "Items" /\ last.items = <<>> /\ last.calls = <<>>

====
